---- MODULE Spec2Model ----
(***************************************************************************)
(* Node lifecycle of gitbackup's spawn_node.py and of its two provider     *)
(* scripts, providers/hetzner.py and providers/scaleway.py.                *)
(*                                                                         *)
(* A run is one invocation started by the operator: spawn_node or          *)
(* destroy_node as main() of spawn_node.py calls them, or a provider       *)
(* script called directly (destroy [id]).  spawn_node.py starts the        *)
(* provider script as a subprocess (run_provider_cmd) and waits for it;    *)
(* the script's HTTP requests are the steps of that subprocess.  The       *)
(* provider account, the DNS zone and the remote hosts are shared by all   *)
(* runs; the code keeps no other state between them.                       *)
(*                                                                         *)
(* Text is a sequence of one-character strings, so that formatting a list  *)
(* line, splitting it and searching it are computed, not assumed.          *)
(***************************************************************************)
EXTENDS Integers, Sequences, FiniteSets, TLC

\* ------------------------------------------------------------------ bounds
MaxEarlier == 1       \* servers that earlier spawns have left at each provider, at most
MaxBootRuns == 2      \* calls of bootstrap_node on one machine, at most

\* ------------------------------------------------------- program constants
POLL_ATTEMPTS == 12   \* spawn_node: for _ in range(12)
SSH_TIMEOUT == 120    \* wait_for_ssh(host, timeout=120)
SSH_SLEEP == 5        \* wait_for_ssh: time.sleep(5)
CONNECT_TIMEOUT == 5  \* wait_for_ssh: sock.settimeout(5)
POWEROFF_POLLS == 30  \* scaleway destroy_server: for i in range(30)
BOOT_CMDS == 18       \* bootstrap_node: number of ssh_run calls

Runs == {1, 2}        \* two processes are enough to overlap
Providers == {"scaleway", "hetzner"}

\* -------------------------------------------------------------------- text
SP == " "
DOT == "."
None == <<"None">>                       \* Python's None (no text equals it)
NA == <<"N", "/", "A">>                  \* "N/A"
UNKNOWN == <<"u","n","k","n","o","w","n">>
VM_NAME == <<"g","i","t","b","a","c","k","u","p","-","n","o","d","e">>
B1 == <<"b", "1">>
B10 == <<"b", "1", "0">>
Names == {B1, B10}                       \* node names given on the command line

Digit(n) == CASE n = 0 -> "0" [] n = 1 -> "1" [] n = 2 -> "2" [] n = 3 -> "3"
              [] n = 4 -> "4" [] n = 5 -> "5" [] n = 6 -> "6" [] n = 7 -> "7"
              [] n = 8 -> "8" [] OTHER -> "9"

\* the address the provider gives to server number n
IpOf(n) == <<"1", "0", DOT, "0", DOT, "0", DOT, Digit(n)>>

Text(s) == CASE s = "running"  -> <<"r","u","n","n","i","n","g">>
             [] s = "stopped"  -> <<"s","t","o","p","p","e","d">>
             [] s = "stopping" -> <<"s","t","o","p","p","i","n","g">>
             [] s = "cx22"     -> <<"c","x","2","2">>
             [] s = "stardust" -> <<"S","T","A","R","D","U","S","T","1","-","S">>
             [] s = "Name"     -> <<"N","a","m","e">>
             [] s = "Status"   -> <<"S","t","a","t","u","s">>
             [] s = "State"    -> <<"S","t","a","t","e">>
             [] s = "IP"       -> <<"I","P">>
             [] s = "Type"     -> <<"T","y","p","e">>
             [] s = "No servers found" ->
                  <<"N","o",SP,"s","e","r","v","e","r","s",SP,"f","o","u","n","d">>
             [] OTHER          -> <<"A","P","I",SP,"E","r","r","o","r">>

Rep(c, n) == [i \in 1..n |-> c]

\* f"{s:<w}"
Ljust(s, w) == IF Len(s) >= w THEN s ELSE s \o Rep(SP, w - Len(s))

\* s in t
IsSubstr(s, t) == \E i \in 0..(Len(t) - Len(s)) : SubSeq(t, i + 1, i + Len(s)) = s

\* s.count(c)
Count(s, c) == Cardinality({i \in 1..Len(s) : s[i] = c})

\* line.split(): the maximal runs of characters other than blanks, in order
Split(line) ==
    LET starts == {i \in 1..Len(line) : line[i] # SP /\ (i = 1 \/ line[i - 1] = SP)}
        EndOf(i) == CHOOSE j \in i..Len(line) :
                      /\ \A k \in i..j : line[k] # SP
                      /\ (j = Len(line) \/ line[j + 1] = SP)
        Nth(n) == CHOOSE i \in starts : Cardinality({j \in starts : j < i}) = n - 1
    IN  [n \in 1..Cardinality(starts) |-> SubSeq(line, Nth(n), EndOf(Nth(n)))]

\* ---------------------------------------------------------- provider scripts
\* One row of `list`: name, status, address, type, left-justified.
HetznerRow(a, b, c, d) ==
    Ljust(a, 20) \o <<SP>> \o Ljust(b, 12) \o <<SP>> \o Ljust(c, 16) \o <<SP>> \o Ljust(d, 10)

ScalewayRow(a, b, c, d) ==
    Ljust(a, 20) \o <<SP>> \o Ljust(b, 12) \o <<SP>> \o Ljust(c, 16) \o <<SP>> \o Ljust(d, 15)

\* stdout of `list` as its lines, for the servers the API returned
HetznerList(svs) ==
    IF svs = <<>> THEN <<Text("No servers found")>>
    ELSE <<<<>>, HetznerRow(Text("Name"), Text("Status"), Text("IP"), Text("Type")),
           Rep("-", 60)>>
         \o [i \in 1..Len(svs) |->
               HetznerRow(svs[i].name, Text(svs[i].state), svs[i].ip, Text("cx22"))]

ScalewayList(svs) ==
    IF svs = <<>> THEN <<Text("No servers found")>>
    ELSE <<<<>>, ScalewayRow(Text("Name"), Text("State"), Text("IP"), Text("Type")),
           Rep("-", 65)>>
         \o [i \in 1..Len(svs) |->
               ScalewayRow(svs[i].name, Text(svs[i].state), svs[i].ip, Text("stardust"))]

ListOutput(prov, svs) == IF prov = "hetzner" THEN HetznerList(svs) ELSE ScalewayList(svs)

\* api_request's output when the request is refused: one line, then exit 1
ApiErrorOutput == <<Text("API Error")>>

\* ------------------------------------------------------------ spawn_node.py
\* the first part of a line that holds three dots, None when it has none
FirstAddress(parts) ==
    LET hits == {i \in 1..Len(parts) : Count(parts[i], DOT) = 3}
    IN  IF hits = {} THEN None
        ELSE parts[CHOOSE i \in hits : \A j \in hits : i <= j]

RECURSIVE ScanLines(_, _, _)
ScanLines(lines, name, i) ==
    IF i > Len(lines) THEN None
    ELSE IF IsSubstr(name, lines[i]) /\ FirstAddress(Split(lines[i])) # None
         THEN FirstAddress(Split(lines[i]))
         ELSE ScanLines(lines, name, i + 1)

\* get_vm_ip, applied to the stdout of the provider's `list`
get_vm_ip(stdout, name) == ScanLines(stdout, name, 1)

\* -------------------------------------------------------------------- state
VARIABLES
    mode,      \* "seq": the operator starts a run when the last has ended; "conc": runs overlap
    servers,   \* provider |-> the servers of the account, in the order the API lists them
    nextId,    \* next server id the providers hand out
    blockVols, \* ids of the block-storage (sbs) volumes that exist at Scaleway
    zone,      \* the DNS zone: records [id, name, content] in the order the API lists them
    nextRec,   \* next DNS record id
    args,      \* run |-> its command line [op, name, prov, sid]
    env,       \* ENV as load_env reads it from .env: [token, webhook], whether each is set
    pc,        \* run |-> position in spawn_node.py (or "script" for a direct script run)
    scr,       \* run |-> the provider script process: [pc, sid, i, vols, code, out, status,
               \*         calls], status what its last request was answered ("ok", "404",
               \*         "refused"), calls its api_request calls in order, a repeated one
               \*         logged once
    ip,        \* run |-> local `ip` of spawn_node / destroy_node
    polls,     \* run |-> get_vm_ip calls made so far by spawn_node's address loop (0 outside it)
    elapsed,   \* run |-> seconds since wait_for_ssh started (0 outside it)
    bstep,     \* run |-> ssh_run calls bootstrap_node has made
    bfailed,   \* run |-> some ssh_run of the bootstrap has exited non-zero
    bafter,    \* run |-> an ssh_run was issued after one that had exited non-zero
    creates,   \* run |-> provider `create` commands the run has invoked
    ghost,     \* run |-> history of the run: [made: id of the server its create made (0: none),
               \*          smooth: so far create succeeded, each list showed that server's
               \*          address, port 22 was open and every remote command exited 0,
               \*          lost: some discord_notify call of the run returned False]
    dns,       \* run |-> its create_dns / delete_dns call: [called, ok, reqs], whether it was
               \*         made, what it returned and the number of requests it sent to Cloudflare
    hist,      \* run |-> external calls of the run in order, a repeated poll logged once
    ret,       \* run |-> what spawn_node / destroy_node returned ("none" before)
    exitCode,  \* run |-> exit status of the process (-1 while it runs)
    host,      \* the machine bootstrap_node works on: [user, pkgs, hostname, files, cronGiobi,
               \*   cronRoot]; followed in SpecBoot only, the other specifications follow the
               \*   exit status of the remote commands and not what they leave on the machine
    clock,     \* the time (datetime.now()) of the bootstrap in progress, in half-days
    booted     \* history: [runs: calls of bootstrap_node that have returned, once: the
               \*   machine as the first of them left it]

vars == <<mode, servers, nextId, blockVols, zone, nextRec, args, env, pc, scr, ip, polls,
          elapsed, bstep, bfailed, bafter, creates, ghost, dns, hist, ret, exitCode,
          host, clock, booted>>

world == <<servers, nextId, blockVols, zone, nextRec>>
remote == <<host, clock, booted>>
locals == <<ip, polls, elapsed, bstep, bfailed, bafter, creates, ghost, dns, hist, ret>>

NoArgs == [op |-> "none", name |-> None, prov |-> "hetzner", sid |-> 0]
ScrOff == [pc |-> "off", sid |-> 0, i |-> 0, vols |-> <<>>, code |-> 0, out |-> <<>>,
           status |-> "", calls |-> <<>>]
NoGhost == [made |-> 0, smooth |-> TRUE, lost |-> FALSE]
NoDns == [called |-> FALSE, ok |-> FALSE, reqs |-> 0]

\* the files and directories bootstrap_node writes on the machine
Paths == {"sudoers", "authorized_keys", "dotenv", "gitbackup", "backup", "daily-backup.sh",
          "www/env.json", "update-system-json.sh", "www/system.json", "nginx/default",
          "gitbackup/env.json"}

\* what a path holds: nothing, or what was written for node `name` at provider `prov`,
\* with the time stamp the text carries (0 when it carries none)
Absent == [kind |-> "absent", name |-> None, prov |-> "", at |-> 0]
Holds(name, prov, at) == [kind |-> "file", name |-> name, prov |-> prov, at |-> at]

\* the two crontab lines of bootstrap_node
DAILY_TASK == "0 3 * * * /home/giobi/daily-backup.sh"
LIVENESS_TASK == "*/5 * * * * /usr/local/bin/update-system-json.sh"
\* a line the operator has put into root's crontab
OWN_TASK == "@weekly /usr/sbin/logrotate"

\* a machine as the provider's image starts it
FreshHost == [user |-> FALSE, pkgs |-> FALSE, hostname |-> None,
              files |-> [f \in Paths |-> Absent], cronGiobi |-> <<>>, cronRoot |-> <<>>]

\* no call of bootstrap_node has returned
NotBooted == [runs |-> 0, once |-> FreshHost]

InitRemote ==
    /\ host = FreshHost
    /\ clock = 0
    /\ booted = NotBooted

\* a server the operator made by hand before any run: it bears a node's name
Foreign(n) == [id |-> n, name |-> B10, ip |-> IpOf(n), state |-> "running",
               node |-> B10, vols |-> <<>>]

\* the k-th server earlier spawns have left: create_server's, running, with its address
Earlier(pr, k) ==
    LET n == IF pr = "hetzner" THEN 2 * k + 1 ELSE 2 * k + 2
    IN  [id |-> n, name |-> VM_NAME, ip |-> IpOf(n), state |-> "running",
         node |-> IF k = 1 THEN B10 ELSE B1,
         vols |-> IF pr = "hetzner" THEN <<>>
                  ELSE <<[id |-> 10 * n, type |-> "l_ssd"], [id |-> 10 * n + 1, type |-> "sbs_volume"],
                         [id |-> 10 * n + 2, type |-> "sbs_volume"]>>]

Log(h, k, a) == IF h # <<>> /\ h[Len(h)] = [k |-> k, a |-> a] THEN h
                ELSE Append(h, [k |-> k, a |-> a])

\* a call that is logged each time it is made
Add(h, k, a) == Append(h, [k |-> k, a |-> a])

Has(h, k) == \E i \in 1..Len(h) : h[i].k = k

\* index of the first entry of kind k (0 when there is none)
FirstOf(h, k) == IF Has(h, k) THEN CHOOSE i \in 1..Len(h) :
                                     h[i].k = k /\ \A j \in 1..(i - 1) : h[j].k # k
                 ELSE 0

IndexOfId(svs, id) == IF \E i \in 1..Len(svs) : svs[i].id = id
                      THEN CHOOSE i \in 1..Len(svs) : svs[i].id = id ELSE 0

Without(seq, k) == [i \in 1..(Len(seq) - 1) |-> IF i < k THEN seq[i] ELSE seq[i + 1]]

\* for s in servers: if s["name"] == VM_CONFIG["name"]: server_id = s["id"]; break
FindByName(svs) ==
    LET hits == {i \in 1..Len(svs) : svs[i].name = VM_NAME}
    IN  IF hits = {} THEN 0 ELSE svs[CHOOSE i \in hits : \A j \in hits : i <= j].id

\* The account and the zone as earlier runs and the operator may have left them.
InitWorld(foreign, earlier, record) ==
    /\ servers = [pr \in Providers |->
                    (IF foreign THEN <<Foreign(IF pr = "hetzner" THEN 1 ELSE 2)>> ELSE <<>>)
                    \o [k \in 1..earlier |-> Earlier(pr, k)]]
    /\ nextId = 2 * MaxEarlier + 3
    /\ blockVols = UNION {{10 * (2 * k + 2) + 1, 10 * (2 * k + 2) + 2} : k \in 1..earlier}
    /\ zone = IF record THEN <<[id |-> 1, name |-> B1, content |-> IpOf(9)]>> ELSE <<>>
    /\ nextRec = 2

InitRuns ==
    /\ args = [p \in Runs |-> NoArgs]
    /\ pc = [p \in Runs |-> "idle"]
    /\ scr = [p \in Runs |-> ScrOff]
    /\ ip = [p \in Runs |-> None]
    /\ polls = [p \in Runs |-> 0]
    /\ elapsed = [p \in Runs |-> 0]
    /\ bstep = [p \in Runs |-> 0]
    /\ bfailed = [p \in Runs |-> FALSE]
    /\ bafter = [p \in Runs |-> FALSE]
    /\ creates = [p \in Runs |-> 0]
    /\ ghost = [p \in Runs |-> NoGhost]
    /\ dns = [p \in Runs |-> NoDns]
    /\ hist = [p \in Runs |-> <<>>]
    /\ ret = [p \in Runs |-> "none"]
    /\ exitCode = [p \in Runs |-> -1]

InitEnv == \E tk \in BOOLEAN, wh \in BOOLEAN : env = [token |-> tk, webhook |-> wh]

\* One run, started in any such world, with requests that may fail.
Init ==
    /\ mode = "seq"
    /\ \E foreign \in BOOLEAN, earlier \in 0..MaxEarlier, record \in BOOLEAN :
         InitWorld(foreign, earlier, record)
    /\ InitEnv
    /\ InitRuns
    /\ InitRemote

\* A spawn (run 1) and a destroy (run 2) on Scaleway, started in either order and free to
\* overlap, in a configured environment where no request fails; the account holds the
\* operator's server b10.
InitConc ==
    /\ mode = "conc"
    /\ InitWorld(TRUE, 0, FALSE)
    /\ env = [token |-> TRUE, webhook |-> TRUE]
    /\ InitRuns
    /\ InitRemote

\* what a request, a connection or a remote command may answer
Answers == IF mode = "conc" THEN {TRUE} ELSE BOOLEAN
ExitCodes == IF mode = "conc" THEN {0} ELSE {0, 1}
Outcomes == IF mode = "conc" THEN {"204"} ELSE {"204", "refused", "raised"}
Commands(p) == IF mode = "conc" THEN (IF p = 1 THEN {"spawn"} ELSE {"destroy"})
               ELSE {"spawn", "destroy", "script"}
Accounts == IF mode = "conc" THEN {"scaleway"} ELSE Providers
NodeNames == IF mode = "conc" THEN Names ELSE Names \cup {VM_NAME}

\* ------------------------------------------------- starting a run (main, argv)
\* the script's first request for a command: main() of hetzner.py / scaleway.py
Launch(prov, cmd, sid) ==
    [ScrOff EXCEPT !.sid = sid,
                   !.pc = CASE cmd = "list" -> "list"
                            [] cmd = "create" -> "create"
                            [] OTHER -> IF sid = 0 THEN "find"
                                        ELSE IF prov = "hetzner" THEN "delete" ELSE "getvols"]

\* may the operator start run p now
MayStart(p) == mode = "seq" => p = 1

Start(p) ==
    /\ pc[p] = "idle"
    /\ MayStart(p)
    /\ \E op \in Commands(p), n \in NodeNames, pr \in Accounts,
          sid \in {0} \cup 1..(nextId - 1) :
         /\ op = "script" => n = B1
         /\ op # "script" => sid = 0
         /\ args' = [args EXCEPT ![p] = [op |-> op, name |-> n, prov |-> pr, sid |-> sid]]
         /\ pc' = [pc EXCEPT ![p] = CASE op = "spawn" -> "sp_create"
                                       [] op = "destroy" -> "de_notify"
                                       [] OTHER -> "script"]
         /\ scr' = [scr EXCEPT ![p] = IF op = "script" THEN Launch(pr, "destroy", sid)
                                      ELSE ScrOff]
    /\ UNCHANGED <<mode, remote, world, env, locals, exitCode>>

\* ----------------------------------------------- the provider script's steps
\* api_request refused (no credential, or HTTP status >= 400): print, sys.exit(1)
ApiExit(s, status) == [s EXCEPT !.pc = "exited", !.code = 1, !.i = 0, !.status = status]
\* the command's function returns and main() ends
Finish(s) == [s EXCEPT !.pc = "exited", !.code = 0, !.status = "ok"]

\* the script calls api_request for a request of kind k
Call(s, k) == [s EXCEPT !.calls = Log(@, k, None)]

\* list_servers
ScrList(p) ==
    /\ scr[p].pc = "list"
    /\ \E ok \in Answers :
         scr' = [scr EXCEPT ![p] =
                   IF ok THEN [Finish(Call(@, "list")) EXCEPT
                                  !.out = ListOutput(args[p].prov, servers[args[p].prov])]
                   ELSE [ApiExit(Call(@, "list"), "refused") EXCEPT !.out = ApiErrorOutput]]
    /\ UNCHANGED <<mode, remote, world, args, env, pc, locals, exitCode>>

NewServer(id, node, addr, st, vols) ==
    [id |-> id, name |-> VM_NAME, ip |-> addr, state |-> st, node |-> node, vols |-> vols]

\* create_server: POST servers with VM_CONFIG (the command's argument is taken as cloud_init_file)
ScrCreate(p) ==
    /\ scr[p].pc = "create"
    /\ \E ok \in Answers, addr \in {NA, IpOf(nextId)}, vt \in {"l_ssd", "sbs_volume"} :
         LET pr == args[p].prov
             hz == pr = "hetzner"
         IN  /\ hz => vt = "l_ssd"
             /\ ~ok => addr = NA /\ vt = "l_ssd"
             /\ IF ok
                THEN /\ servers' = [servers EXCEPT ![pr] = Append(@,
                            NewServer(nextId, args[p].name, addr,
                                      IF hz THEN "running" ELSE "stopped",
                                      IF hz THEN <<>> ELSE <<[id |-> nextId, type |-> vt]>>))]
                     /\ nextId' = nextId + 1
                     /\ blockVols' = IF vt = "sbs_volume" THEN blockVols \cup {nextId} ELSE blockVols
                     /\ scr' = [scr EXCEPT ![p] =
                                 IF hz THEN Finish(Call(@, "create"))
                                 ELSE [Call(@, "create") EXCEPT !.pc = "poweron", !.sid = nextId]]
                     /\ ghost' = [ghost EXCEPT ![p].made = nextId]
                ELSE /\ scr' = [scr EXCEPT ![p] = ApiExit(Call(@, "create"), "refused")]
                     /\ UNCHANGED <<servers, nextId, blockVols, ghost>>
    /\ UNCHANGED <<mode, remote, zone, nextRec, args, env, pc, ip, polls, elapsed, bstep, bfailed, bafter,
                   creates, dns, hist, ret, exitCode>>

SetState(svs, id, st) ==
    [i \in 1..Len(svs) |-> IF svs[i].id = id THEN [svs[i] EXCEPT !.state = st] ELSE svs[i]]

\* scaleway create_server: POST servers/{id}/action poweron
ScrPowerOn(p) ==
    /\ scr[p].pc = "poweron"
    /\ \E ok \in Answers :
         LET pr == args[p].prov
             there == IndexOfId(servers[pr], scr[p].sid) # 0
         IN  IF ok /\ there
             THEN /\ servers' = [servers EXCEPT ![pr] = SetState(@, scr[p].sid, "running")]
                  /\ scr' = [scr EXCEPT ![p] = Finish(Call(@, "poweron"))]
             ELSE /\ scr' = [scr EXCEPT ![p] =
                              ApiExit(Call(@, "poweron"), IF ok THEN "404" ELSE "refused")]
                  /\ UNCHANGED servers
    /\ UNCHANGED <<mode, remote, nextId, blockVols, zone, nextRec, args, env, pc, locals, exitCode>>

\* destroy_server without an id: GET servers, take the first server named gitbackup-node
ScrFind(p) ==
    /\ scr[p].pc = "find"
    /\ \E ok \in Answers :
         LET pr == args[p].prov
             id == FindByName(servers[pr])
         IN  scr' = [scr EXCEPT ![p] =
                       IF ~ok THEN ApiExit(Call(@, "find"), "refused")
                       ELSE IF id = 0 THEN Finish(Call(@, "find"))
                       ELSE [Call(@, "find") EXCEPT !.sid = id,
                                      !.pc = IF pr = "hetzner" THEN "delete" ELSE "getvols"]]
    /\ UNCHANGED <<mode, remote, world, args, env, pc, locals, exitCode>>

\* a variant of the volume collection that takes every volume of the server
SbsIds_All(vols) == [i \in 1..Len(vols) |-> vols[i].id]

\* for vol in volumes.values(): if vol.get("volume_type") == "sbs_volume": append its id
SbsIds(vols) == LET RECURSIVE Pick(_)
                    Pick(i) == IF i > Len(vols) THEN <<>>
                               ELSE (IF vols[i].type = "sbs_volume" THEN <<vols[i].id>> ELSE <<>>)
                                    \o Pick(i + 1)
                IN  Pick(1)

\* scaleway destroy_server: GET servers/{id}, collect the sbs volumes
ScrGetVolumes(p) ==
    /\ scr[p].pc = "getvols"
    /\ \E ok \in Answers :
         LET svs == servers[args[p].prov]
             k == IndexOfId(svs, scr[p].sid)
         IN  scr' = [scr EXCEPT ![p] =
                       IF ok /\ k # 0
                       THEN [Call(@, "get") EXCEPT !.vols = SbsIds(svs[k].vols), !.pc = "poweroff"]
                       ELSE ApiExit(Call(@, "get"), IF ok THEN "404" ELSE "refused")]
    /\ UNCHANGED <<mode, remote, world, args, env, pc, locals, exitCode>>

\* scaleway destroy_server: try: POST action poweroff; except: pass
ScrPowerOff(p) ==
    /\ scr[p].pc = "poweroff"
    /\ \E ok \in Answers :
         LET pr == args[p].prov
             k == IndexOfId(servers[pr], scr[p].sid)
         IN  /\ servers' = [servers EXCEPT ![pr] =
                              IF ok /\ k # 0 /\ @[k].state = "running"
                              THEN SetState(@, scr[p].sid, "stopping") ELSE @]
             /\ scr' = [scr EXCEPT ![p] = [Call(@, "poweroff") EXCEPT !.pc = "pollstate", !.i = 0]]
    /\ UNCHANGED <<mode, remote, nextId, blockVols, zone, nextRec, args, env, pc, locals, exitCode>>

\* scaleway destroy_server: for i in range(30): GET servers/{id}; stopped -> break
ScrPollState(p) ==
    /\ scr[p].pc = "pollstate"
    /\ \E ok \in Answers :
         LET svs == servers[args[p].prov]
             k == IndexOfId(svs, scr[p].sid)
         IN  scr' = [scr EXCEPT ![p] =
                       IF ~(ok /\ k # 0)
                       THEN ApiExit(Call(@, "state"), IF ok THEN "404" ELSE "refused")
                       ELSE IF svs[k].state = "stopped" \/ @.i + 1 = POWEROFF_POLLS
                            THEN [Call(@, "state") EXCEPT !.pc = "delete", !.i = 0]
                            ELSE [Call(@, "state") EXCEPT !.i = @ + 1]]
    /\ UNCHANGED <<mode, remote, world, args, env, pc, locals, exitCode>>

\* destroy_server: DELETE servers/{id}
ScrDelete(p) ==
    /\ scr[p].pc = "delete"
    /\ \E ok \in Answers :
         LET pr == args[p].prov
             k == IndexOfId(servers[pr], scr[p].sid)
         IN  IF ok /\ k # 0
             THEN /\ servers' = [servers EXCEPT ![pr] = Without(@, k)]
                  /\ scr' = [scr EXCEPT ![p] =
                              IF scr[p].vols = <<>> THEN Finish(Call(@, "delete"))
                              ELSE [Call(@, "delete") EXCEPT !.pc = "delvols"]]
             ELSE /\ scr' = [scr EXCEPT ![p] =
                              ApiExit(Call(@, "delete"), IF ok THEN "404" ELSE "refused")]
                  /\ UNCHANGED servers
    /\ UNCHANGED <<mode, remote, nextId, blockVols, zone, nextRec, args, env, pc, locals, exitCode>>

\* scaleway destroy_server: for vol_id in volume_ids: try: DELETE volumes/{id}; except: print
ScrDeleteVolume(p) ==
    /\ scr[p].pc = "delvols"
    /\ \E ok \in Answers :
         /\ blockVols' = IF ok THEN blockVols \ {scr[p].vols[scr[p].i + 1]} ELSE blockVols
         /\ scr' = [scr EXCEPT ![p] =
                     IF @.i + 1 = Len(@.vols) THEN Finish([Call(@, "delvol") EXCEPT !.i = @ + 1])
                     ELSE [Call(@, "delvol") EXCEPT !.i = @ + 1]]
    /\ UNCHANGED <<mode, remote, servers, nextId, zone, nextRec, args, env, pc, locals, exitCode>>

\* ------------------------------------------------------ the provider's own steps
\* the provider gives a server its public address
ProviderAssignIp ==
    \E pr \in Providers : \E k \in 1..Len(servers[pr]) :
        /\ servers[pr][k].ip = NA
        /\ servers' = [servers EXCEPT ![pr][k].ip = IpOf(servers[pr][k].id)]
        /\ UNCHANGED <<mode, remote, nextId, blockVols, zone, nextRec, args, env, pc, scr, locals, exitCode>>

\* a server that was told to power off comes to rest
ProviderStops ==
    \E pr \in Providers : \E k \in 1..Len(servers[pr]) :
        /\ servers[pr][k].state = "stopping"
        /\ servers' = [servers EXCEPT ![pr][k].state = "stopped"]
        /\ UNCHANGED <<mode, remote, nextId, blockVols, zone, nextRec, args, env, pc, scr, locals, exitCode>>

\* ---------------------------------------------------------------- Cloudflare
\* GET dns_records?name=...: the records of that name, in the zone's order
RecordsOf(z, name) ==
    LET RECURSIVE Pick(_)
        Pick(i) == IF i > Len(z) THEN <<>>
                   ELSE (IF z[i].name = name THEN <<z[i]>> ELSE <<>>) \o Pick(i + 1)
    IN  Pick(1)

\* create_dns(name, ip): [zone, nextRec, ok, reqs], ok the value it returns, reqs the
\* number of requests it sent.
\* getOk, writeOk: whether Cloudflare answers the lookup and the write with success;
\* it refuses to create a record identical to one it has.
create_dns(z, nr, token, name, addr, getOk, writeOk) ==
    IF ~token THEN [zone |-> z, nextRec |-> nr, ok |-> FALSE, reqs |-> 0]
    ELSE LET existing == IF getOk THEN RecordsOf(z, name) ELSE <<>>
         IN  IF existing # <<>>
             THEN IF writeOk
                  THEN [zone |-> [i \in 1..Len(z) |->
                                    IF z[i].id = existing[1].id
                                    THEN [z[i] EXCEPT !.content = addr] ELSE z[i]],
                        nextRec |-> nr, ok |-> TRUE, reqs |-> 2]
                  ELSE [zone |-> z, nextRec |-> nr, ok |-> FALSE, reqs |-> 2]
             ELSE IF writeOk /\ ~\E i \in 1..Len(z) : z[i].name = name /\ z[i].content = addr
                  THEN [zone |-> Append(z, [id |-> nr, name |-> name, content |-> addr]),
                        nextRec |-> nr + 1, ok |-> TRUE, reqs |-> 2]
                  ELSE [zone |-> z, nextRec |-> nr, ok |-> FALSE, reqs |-> 2]

\* delete_dns(name): [zone, ok, reqs], reqs the number of requests it sent.
\* Without a token the lookup is still sent (Bearer None) and is refused.
delete_dns(z, token, name, getOk, delOk) ==
    LET existing == IF token /\ getOk THEN RecordsOf(z, name) ELSE <<>>
    IN  IF existing # <<>>
        THEN [zone |-> IF delOk THEN SelectSeq(z, LAMBDA r : r.id # existing[1].id) ELSE z,
              ok |-> TRUE, reqs |-> 2]
        ELSE [zone |-> z, ok |-> FALSE, reqs |-> 1]

\* discord_notify: the value it returns; nothing it does can raise
discord_notify(webhook, outcome) ==
    IF ~webhook THEN FALSE
    ELSE CASE outcome = "204" -> TRUE
           [] outcome = "refused" -> FALSE
           [] OTHER -> FALSE              \* requests.post raised: caught, False

\* -------------------------------------------------------------- spawn_node
Returned(p) == scr[p].pc = "exited"

\* 1. run_provider_cmd(provider, 'create', name)
SpawnCreate(p) ==
    /\ pc[p] = "sp_create"
    /\ scr' = [scr EXCEPT ![p] = Launch(args[p].prov, "create", 0)]
    /\ creates' = [creates EXCEPT ![p] = @ + 1]
    /\ hist' = [hist EXCEPT ![p] = Log(@, "create", args[p].name)]
    /\ pc' = [pc EXCEPT ![p] = "sp_created"]
    /\ UNCHANGED <<mode, remote, world, args, env, ip, polls, elapsed, bstep, bfailed, bafter, ghost, dns,
                   ret, exitCode>>

\* if code != 0: return False
SpawnCreated(p) ==
    /\ pc[p] = "sp_created"
    /\ Returned(p)
    /\ IF scr[p].code # 0
       THEN /\ ret' = [ret EXCEPT ![p] = FALSE]
            /\ pc' = [pc EXCEPT ![p] = "exit"]
            /\ ghost' = [ghost EXCEPT ![p].smooth = FALSE]
       ELSE /\ pc' = [pc EXCEPT ![p] = "sp_poll"]
            /\ UNCHANGED <<ret, ghost>>
    /\ UNCHANGED <<mode, remote, world, args, env, scr, ip, polls, elapsed, bstep, bfailed, bafter,
                   creates, dns, hist, exitCode>>

\* the list output has a row whose address column is addr
Shows(stdout, addr) ==
    \E i \in 1..Len(stdout) : \E j \in 1..Len(Split(stdout[i])) : Split(stdout[i])[j] = addr

\* 2. for _ in range(12): ip = get_vm_ip(provider, name)
SpawnPoll(p) ==
    /\ pc[p] = "sp_poll"
    /\ scr' = [scr EXCEPT ![p] = Launch(args[p].prov, "list", 0)]
    /\ polls' = [polls EXCEPT ![p] = @ + 1]
    /\ hist' = [hist EXCEPT ![p] = Log(@, "list", None)]
    /\ pc' = [pc EXCEPT ![p] = "sp_polled"]
    /\ UNCHANGED <<mode, remote, world, args, env, ip, elapsed, bstep, bfailed, bafter, creates, dns, ghost, ret, exitCode>>

\* variants of the address loop, to show what the properties below depend on:
\* one that creates again after a poll without an address,
AfterPoll_Retry(got, n) == IF got # None THEN "sp_dns"
                           ELSE IF n >= POLL_ATTEMPTS THEN "fail" ELSE "sp_create"

\* one that waits for port 22 without publishing the address,
AfterPoll_SshFirst(got, n) == IF got # None THEN "sp_ssh"
                              ELSE IF n >= POLL_ATTEMPTS THEN "fail" ELSE "sp_poll"

\* and one that polls once more than range(12)
AfterPoll_OffByOne(got, n) == IF got # None THEN "sp_dns"
                              ELSE IF n > POLL_ATTEMPTS THEN "fail" ELSE "sp_poll"

\* where the address loop goes once get_vm_ip has returned `got` on its n-th call
AfterPoll(got, n) == IF got # None THEN "sp_dns"
                     ELSE IF n >= POLL_ATTEMPTS THEN "fail" ELSE "sp_poll"

SpawnPolled(p) ==
    /\ pc[p] = "sp_polled"
    /\ Returned(p)
    /\ LET got == get_vm_ip(scr[p].out, args[p].name)
           to == AfterPoll(got, polls[p])
       IN  /\ ip' = [ip EXCEPT ![p] = got]
           /\ pc' = [pc EXCEPT ![p] = IF to = "fail" THEN "exit" ELSE to]
           /\ ret' = [ret EXCEPT ![p] = IF to = "fail" THEN FALSE ELSE @]
           /\ polls' = [polls EXCEPT ![p] = IF to = "sp_dns" THEN 0 ELSE @]
           /\ ghost' = [ghost EXCEPT ![p].smooth = @ /\ Shows(scr[p].out, IpOf(ghost[p].made))]
    /\ scr' = [scr EXCEPT ![p].out = <<>>]
    /\ UNCHANGED <<mode, remote, world, args, env, elapsed, bstep, bfailed, bafter, creates, dns, hist, exitCode>>

\* a variant of spawn_node that gives up when create_dns returns False
AfterDns_Hard(ok) == IF ok THEN "sp_ssh" ELSE "fail"

\* where spawn_node goes when create_dns has returned `ok`: the value only chooses the
\* message printed
AfterDns(ok) == "sp_ssh"

\* 3. create_dns(name, ip)
SpawnDns(p) ==
    /\ pc[p] = "sp_dns"
    /\ \E getOk \in Answers, writeOk \in Answers :
         LET r == create_dns(zone, nextRec, env.token, args[p].name, ip[p], getOk, writeOk)
             to == AfterDns(r.ok)
         IN  /\ zone' = r.zone
             /\ nextRec' = r.nextRec
             /\ dns' = [dns EXCEPT ![p] = [called |-> TRUE, ok |-> r.ok, reqs |-> r.reqs]]
             /\ hist' = [hist EXCEPT ![p] = Log(@, "create_dns", ip[p])]
             /\ pc' = [pc EXCEPT ![p] = IF to = "fail" THEN "exit" ELSE to]
             /\ ret' = [ret EXCEPT ![p] = IF to = "fail" THEN FALSE ELSE @]
    /\ elapsed' = [elapsed EXCEPT ![p] = 0]
    /\ UNCHANGED <<mode, remote, servers, nextId, blockVols, args, env, scr, ip, polls, bstep, bfailed, bafter,
                   creates, ghost, exitCode>>

\* a variant of spawn_node that goes on to the bootstrap whatever wait_for_ssh returns
AfterSsh_Ignore(ready) == "sp_boot"

\* if not wait_for_ssh(ip): return False
AfterSsh(ready) == IF ready THEN "sp_boot" ELSE "fail"

\* 4. wait_for_ssh(ip): while time.time() - start < timeout: connect_ex((host, 22))
SpawnSsh(p) ==
    /\ pc[p] = "sp_ssh"
    /\ IF elapsed[p] >= SSH_TIMEOUT
       THEN /\ ret' = [ret EXCEPT ![p] = IF AfterSsh(FALSE) = "fail" THEN FALSE ELSE @]
            /\ pc' = [pc EXCEPT ![p] = IF AfterSsh(FALSE) = "fail" THEN "exit" ELSE AfterSsh(FALSE)]
            /\ UNCHANGED <<elapsed, hist, ghost>>
       ELSE \E open \in Answers, waited \in {0, CONNECT_TIMEOUT} :
              /\ open => waited = 0
              /\ hist' = [hist EXCEPT ![p] = Log(@, "probe", ip[p])]
              /\ ghost' = [ghost EXCEPT ![p].smooth = @ /\ open]
              /\ IF open
                 THEN /\ pc' = [pc EXCEPT ![p] = AfterSsh(TRUE)]
                      /\ elapsed' = [elapsed EXCEPT ![p] = 0]
                 ELSE /\ elapsed' = [elapsed EXCEPT ![p] = @ + waited + SSH_SLEEP]
                      /\ UNCHANGED pc
              /\ UNCHANGED ret
    /\ UNCHANGED <<mode, remote, world, args, env, scr, ip, polls, bstep, bfailed, bafter, creates, dns, exitCode>>

\* bootstrap_node's return value, given whether one of its commands failed
bootstrap_node(failed) == TRUE

\* 5. bootstrap_node: the next ssh_run; its exit status is not looked at
SpawnBoot(p) ==
    /\ pc[p] = "sp_boot"
    /\ \E code \in ExitCodes :
         LET failed == bfailed[p] \/ code # 0
             last == bstep[p] + 1 = BOOT_CMDS
         IN  /\ bstep' = [bstep EXCEPT ![p] = @ + 1]
             /\ bfailed' = [bfailed EXCEPT ![p] = failed]
             /\ bafter' = [bafter EXCEPT ![p] = @ \/ bfailed[p]]
             /\ hist' = [hist EXCEPT ![p] = Log(@, "ssh_run", ip[p])]
             /\ ghost' = [ghost EXCEPT ![p].smooth = @ /\ code = 0]
             /\ pc' = [pc EXCEPT ![p] = IF ~last THEN "sp_boot"
                                        ELSE IF bootstrap_node(failed) THEN "sp_notify"
                                        ELSE "exit"]
             /\ ret' = [ret EXCEPT ![p] = IF last /\ ~bootstrap_node(failed) THEN FALSE ELSE @]
    /\ UNCHANGED <<mode, remote, world, args, env, scr, ip, polls, elapsed, creates, dns, exitCode>>

\* a variant of the callers that gives up when discord_notify returns False
Notified_Strict(next, delivered) == IF delivered THEN next ELSE "fail"

\* where a caller of discord_notify goes when the call has returned `delivered`: to its
\* next statement, the value is dropped
Notified(next, delivered) == next

\* 6. discord_notify("... is ALIVE! ... IP: {ip} ..."); return True
SpawnNotify(p) ==
    /\ pc[p] = "sp_notify"
    /\ \E o \in Outcomes :
         LET delivered == discord_notify(env.webhook, o)
             to == Notified("exit", delivered)
         IN  /\ ghost' = [ghost EXCEPT ![p].lost = @ \/ ~delivered]
             /\ ret' = [ret EXCEPT ![p] = to # "fail"]
    /\ hist' = [hist EXCEPT ![p] = Log(@, "notify_alive", ip[p])]
    /\ pc' = [pc EXCEPT ![p] = "exit"]
    /\ UNCHANGED <<mode, remote, world, args, env, scr, ip, polls, elapsed, bstep, bfailed, bafter,
                   creates, dns, exitCode>>

\* ------------------------------------------------------------- destroy_node
\* discord_notify("... shutting down...")
DestroyNotify(p) ==
    /\ pc[p] = "de_notify"
    /\ \E o \in Outcomes :
         LET delivered == discord_notify(env.webhook, o)
             to == Notified("de_getip", delivered)
         IN  /\ ghost' = [ghost EXCEPT ![p].lost = @ \/ ~delivered]
             /\ pc' = [pc EXCEPT ![p] = IF to = "fail" THEN "exit" ELSE to]
             /\ ret' = [ret EXCEPT ![p] = IF to = "fail" THEN FALSE ELSE @]
    /\ hist' = [hist EXCEPT ![p] = Add(@, "notify_down", None)]
    /\ UNCHANGED <<mode, remote, world, args, env, scr, ip, polls, elapsed, bstep, bfailed, bafter,
                   creates, dns, exitCode>>

\* ip = get_vm_ip(provider, name)
DestroyGetIp(p) ==
    /\ pc[p] = "de_getip"
    /\ scr' = [scr EXCEPT ![p] = Launch(args[p].prov, "list", 0)]
    /\ hist' = [hist EXCEPT ![p] = Add(@, "list", None)]
    /\ pc' = [pc EXCEPT ![p] = "de_gotip"]
    /\ UNCHANGED <<mode, remote, world, args, env, ip, polls, elapsed, bstep, bfailed, bafter, creates, dns, ghost, ret,
                   exitCode>>

\* get_vm_ip returns; the logged call gets its answer
DestroyGotIp(p) ==
    /\ pc[p] = "de_gotip"
    /\ Returned(p)
    /\ ip' = [ip EXCEPT ![p] = get_vm_ip(scr[p].out, args[p].name)]
    /\ hist' = [hist EXCEPT ![p][Len(hist[p])].a = get_vm_ip(scr[p].out, args[p].name)]
    /\ scr' = [scr EXCEPT ![p].out = <<>>]
    /\ pc' = [pc EXCEPT ![p] = "de_destroy"]
    /\ UNCHANGED <<mode, remote, world, args, env, polls, elapsed, bstep, bfailed, bafter,
                   creates, dns, ghost, ret, exitCode>>

\* the server id destroy_node passes to the provider's destroy: none
DestroyArg(p) == 0

\* run_provider_cmd(provider, 'destroy')
DestroyVm(p) ==
    /\ pc[p] = "de_destroy"
    /\ scr' = [scr EXCEPT ![p] = Launch(args[p].prov, "destroy", DestroyArg(p))]
    /\ hist' = [hist EXCEPT ![p] = Add(@, "destroy", None)]
    /\ pc' = [pc EXCEPT ![p] = "de_destroyed"]
    /\ UNCHANGED <<mode, remote, world, args, env, ip, polls, elapsed, bstep, bfailed, bafter, creates, dns, ghost, ret,
                   exitCode>>

\* a variant of destroy_node that gives up when the provider's destroy fails
AfterDestroy_FailFast(code) == IF code # 0 THEN "exit" ELSE "de_dns"

\* where destroy_node goes when the provider's destroy has ended with `code`
AfterDestroy(code) == "de_dns"

DestroyVmDone(p) ==
    /\ pc[p] = "de_destroyed"
    /\ Returned(p)
    /\ pc' = [pc EXCEPT ![p] = AfterDestroy(scr[p].code)]
    /\ ret' = [ret EXCEPT ![p] = IF AfterDestroy(scr[p].code) = "exit" THEN FALSE ELSE @]
    /\ UNCHANGED <<mode, remote, world, args, env, scr, ip, polls, elapsed, bstep, bfailed, bafter, creates, dns, ghost,
                   hist, exitCode>>

\* delete_dns(name)
DestroyDns(p) ==
    /\ pc[p] = "de_dns"
    /\ \E getOk \in Answers, delOk \in Answers :
         LET r == delete_dns(zone, env.token, args[p].name, getOk, delOk)
         IN  /\ zone' = r.zone
             /\ dns' = [dns EXCEPT ![p] = [called |-> TRUE, ok |-> r.ok, reqs |-> r.reqs]]
    /\ hist' = [hist EXCEPT ![p] = Add(@, "delete_dns", args[p].name)]
    /\ pc' = [pc EXCEPT ![p] = "de_final"]
    /\ UNCHANGED <<mode, remote, servers, nextId, blockVols, nextRec, args, env, scr, ip, polls, elapsed,
                   bstep, bfailed, bafter, creates, ghost, ret, exitCode>>

\* a variant of the final message that prints the address as it is
WasAt_Raw(addr) == addr

\* {ip or 'unknown'}
WasAt(addr) == IF addr = None \/ addr = <<>> THEN UNKNOWN ELSE addr

\* discord_notify("... destroyed ... Was at: {ip or 'unknown'}"); return True
DestroyFinal(p) ==
    /\ pc[p] = "de_final"
    /\ \E o \in Outcomes :
         LET delivered == discord_notify(env.webhook, o)
             to == Notified("exit", delivered)
         IN  /\ ghost' = [ghost EXCEPT ![p].lost = @ \/ ~delivered]
             /\ ret' = [ret EXCEPT ![p] = to # "fail"]
    /\ hist' = [hist EXCEPT ![p] = Add(@, "notify_destroyed", WasAt(ip[p]))]
    /\ pc' = [pc EXCEPT ![p] = "exit"]
    /\ UNCHANGED <<mode, remote, world, args, env, scr, ip, polls, elapsed, bstep, bfailed, bafter,
                   creates, dns, exitCode>>

\* --------------------------------------------------------------------- main
\* The process's exit status: main() of spawn_node.py drops what spawn_node and
\* destroy_node return; a provider script ends with its own status.
ExitStatus(op, returned, code) == IF op = "script" THEN code ELSE 0

\* The process ends; its memory is gone, its exit status stays known.
Exit(p) ==
    /\ \/ pc[p] = "exit"
       \/ pc[p] = "script" /\ Returned(p)
    /\ exitCode' = [exitCode EXCEPT ![p] = ExitStatus(args[p].op, ret[p], scr[p].code)]
    /\ pc' = [pc EXCEPT ![p] = "done"]
    /\ scr' = [scr EXCEPT ![p] = ScrOff]
    /\ ip' = [ip EXCEPT ![p] = None]
    /\ polls' = [polls EXCEPT ![p] = 0]
    /\ elapsed' = [elapsed EXCEPT ![p] = 0]
    /\ bstep' = [bstep EXCEPT ![p] = 0]
    /\ bfailed' = [bfailed EXCEPT ![p] = FALSE]
    /\ bafter' = [bafter EXCEPT ![p] = FALSE]
    /\ args' = [args EXCEPT ![p] = NoArgs]
    /\ ret' = [ret EXCEPT ![p] = "none"]
    /\ creates' = [creates EXCEPT ![p] = 0]
    /\ ghost' = [ghost EXCEPT ![p] = NoGhost]
    /\ dns' = [dns EXCEPT ![p] = NoDns]
    /\ hist' = [hist EXCEPT ![p] = <<>>]
    /\ UNCHANGED <<mode, remote, world, env>>

\* ------------------------------------------- bootstrap_node on the remote host
\* the day of a time (datetime.now().strftime('%Y-%m-%d'))
Day(t) == t \div 2

\* `(crontab -l 2>/dev/null; echo "line") | crontab -`: the table as it is, and the line
AddCronLine(tab, line) == Append(tab, line)

\* Number of the entries of a crontab that are `line`
Entries(tab, line) == Cardinality({i \in 1..Len(tab) : tab[i] = line})

\* The machine after the k-th ssh_run of bootstrap_node(name, ip, provider) has been
\* carried out on machine h at time `now`.
RemoteCmd(k, h, name, prov, now) ==
    LET put(f, c) == [h EXCEPT !.files[f] = c]
        plain == Holds(None, "", 0)
    IN  CASE k = 1 ->   \* setup_user: useradd || true, sudoers.d/giobi, authorized_keys
                 [h EXCEPT !.user = TRUE, !.files["sudoers"] = plain,
                           !.files["authorized_keys"] = plain]
          [] k = 2 ->   \* apt-get install git curl nginx python3-requests
                 [h EXCEPT !.pkgs = TRUE]
          [] k = 3 ->   \* hostnamectl set-hostname {name}
                 [h EXCEPT !.hostname = name]
          [] k = 4 ->   \* cat > /home/giobi/.env, with CREATED={datetime.now().isoformat()}
                 IF h.user THEN put("dotenv", Holds(name, prov, now)) ELSE h
          [] k = 6 ->   \* sudo -u giobi git clone ... /home/giobi/gitbackup || true
                 IF h.user /\ h.pkgs /\ h.files["gitbackup"] = Absent
                 THEN put("gitbackup", plain) ELSE h
          [] k = 7 ->   \* mkdir -p /home/giobi/backup
                 put("backup", plain)
          [] k = 8 ->   \* cat > /home/giobi/daily-backup.sh
                 IF h.user THEN put("daily-backup.sh", plain) ELSE h
          [] k = 10 ->  \* (crontab -u giobi -l; echo "0 3 * * * ...") | crontab -u giobi -
                 IF h.user THEN [h EXCEPT !.cronGiobi = AddCronLine(@, DAILY_TASK)] ELSE h
          [] k = 11 ->  \* cat > /var/www/html/env.json, with "created": the day
                 IF h.pkgs THEN put("www/env.json", Holds(name, prov, Day(now))) ELSE h
          [] k = 12 ->  \* cat > /usr/local/bin/update-system-json.sh
                 put("update-system-json.sh", plain)
          [] k = 13 ->  \* chmod +x ... && update-system-json.sh: writes system.json
                 IF h.pkgs /\ h.files["update-system-json.sh"] # Absent
                 THEN put("www/system.json", plain) ELSE h
          [] k = 14 ->  \* (crontab -l; echo "*/5 * * * * ...") | crontab -
                 [h EXCEPT !.cronRoot = AddCronLine(@, LIVENESS_TASK)]
          [] k = 15 ->  \* cat > /etc/nginx/sites-available/default, with the node's name
                 IF h.pkgs THEN put("nginx/default", Holds(name, "", 0)) ELSE h
          [] k = 17 ->  \* cat > /home/giobi/gitbackup/env.json
                 IF h.files["gitbackup"] # Absent THEN put("gitbackup/env.json", plain) ELSE h
          [] OTHER -> h \* 5, 9, 16, 18: chown / chmod of a file just written, nginx reload

\* the next ssh_run of bootstrap_node, carried out on the machine; after the last one
\* bootstrap_node returns True
BootstrapCmd(p) ==
    /\ pc[p] = "sp_boot"
    /\ LET k == bstep[p] + 1
           last == k = BOOT_CMDS
           h == RemoteCmd(k, host, args[p].name, args[p].prov, clock)
       IN  /\ host' = h
           /\ bstep' = [bstep EXCEPT ![p] = IF last THEN 0 ELSE k]
           /\ pc' = [pc EXCEPT ![p] = IF last THEN "booted" ELSE "sp_boot"]
           /\ booted' = IF ~last THEN booted
                         ELSE [runs |-> booted.runs + 1,
                               once |-> IF booted.runs = 0 THEN h ELSE booted.once]
    /\ UNCHANGED <<mode, world, args, env, scr, ip, polls, elapsed, bfailed, bafter, creates,
                   ghost, dns, hist, ret, exitCode, clock>>

\* bootstrap_node is called again for the same machine with the same arguments, later
BootstrapAgain(p) ==
    /\ pc[p] = "booted"
    /\ booted.runs < MaxBootRuns
    /\ \E later \in 1..2 : clock' = clock + later
    /\ pc' = [pc EXCEPT ![p] = "sp_boot"]
    /\ UNCHANGED <<mode, world, args, env, scr, locals, exitCode, host, booted>>

\* bootstrap_node(name, ip, provider) about to be called, for any node name and provider,
\* on a machine as the image starts it, or one whose root has a crontab of its own, or
\* one whose image already has the user giobi
InitBoot ==
    /\ mode = "boot"
    /\ InitWorld(FALSE, 0, FALSE)
    /\ env = [token |-> TRUE, webhook |-> TRUE]
    /\ \E n \in NodeNames, pr \in Accounts :
         args = [p \in Runs |-> IF p = 1 THEN [op |-> "spawn", name |-> n, prov |-> pr, sid |-> 0]
                                ELSE NoArgs]
    /\ pc = [p \in Runs |-> IF p = 1 THEN "sp_boot" ELSE "idle"]
    /\ ip = [p \in Runs |-> IF p = 1 THEN IpOf(1) ELSE None]
    /\ scr = [p \in Runs |-> ScrOff]
    /\ polls = [p \in Runs |-> 0]
    /\ elapsed = [p \in Runs |-> 0]
    /\ bstep = [p \in Runs |-> 0]
    /\ bfailed = [p \in Runs |-> FALSE]
    /\ bafter = [p \in Runs |-> FALSE]
    /\ creates = [p \in Runs |-> 0]
    /\ ghost = [p \in Runs |-> NoGhost]
    /\ dns = [p \in Runs |-> NoDns]
    /\ hist = [p \in Runs |-> <<>>]
    /\ ret = [p \in Runs |-> "none"]
    /\ exitCode = [p \in Runs |-> -1]
    /\ host \in {FreshHost, [FreshHost EXCEPT !.cronRoot = <<OWN_TASK>>],
                 [FreshHost EXCEPT !.user = TRUE]}
    /\ clock \in 0..1
    /\ booted = NotBooted

NextBoot ==
    \/ \E p \in Runs : BootstrapCmd(p)
    \/ \E p \in Runs : BootstrapAgain(p)

Next ==
    \/ \E p \in Runs : Start(p)
    \/ \E p \in Runs : ScrList(p)
    \/ \E p \in Runs : ScrCreate(p)
    \/ \E p \in Runs : ScrPowerOn(p)
    \/ \E p \in Runs : ScrFind(p)
    \/ \E p \in Runs : ScrGetVolumes(p)
    \/ \E p \in Runs : ScrPowerOff(p)
    \/ \E p \in Runs : ScrPollState(p)
    \/ \E p \in Runs : ScrDelete(p)
    \/ \E p \in Runs : ScrDeleteVolume(p)
    \/ ProviderAssignIp
    \/ ProviderStops
    \/ \E p \in Runs : SpawnCreate(p)
    \/ \E p \in Runs : SpawnCreated(p)
    \/ \E p \in Runs : SpawnPoll(p)
    \/ \E p \in Runs : SpawnPolled(p)
    \/ \E p \in Runs : SpawnDns(p)
    \/ \E p \in Runs : SpawnSsh(p)
    \/ \E p \in Runs : SpawnBoot(p)
    \/ \E p \in Runs : SpawnNotify(p)
    \/ \E p \in Runs : DestroyNotify(p)
    \/ \E p \in Runs : DestroyGetIp(p)
    \/ \E p \in Runs : DestroyGotIp(p)
    \/ \E p \in Runs : DestroyVm(p)
    \/ \E p \in Runs : DestroyVmDone(p)
    \/ \E p \in Runs : DestroyDns(p)
    \/ \E p \in Runs : DestroyFinal(p)
    \/ \E p \in Runs : Exit(p)

Spec == Init /\ [][Next]_vars

SpecConc == InitConc /\ [][Next]_vars

SpecBoot == InitBoot /\ [][NextBoot]_vars


\* ------------------------------------------------------------------ properties
Spawning(p) == args[p].op = "spawn"
Destroying(p) == args[p].op = "destroy"
InProgress(p) == pc[p] \notin {"idle", "done"}
Before(h, a, b) == Has(h, a) /\ Has(h, b) /\ FirstOf(h, a) < FirstOf(h, b)

\* C1: a run of spawn_node invokes the provider's create at most once, whatever later
\* phase fails, and exactly once as soon as it is past its first step.
C1_CreateOnce ==
    \A p \in Runs : Spawning(p) =>
        /\ creates[p] <= 1
        /\ (pc[p] # "sp_create" => creates[p] = 1)

\* a spawn that created its server, probed port 22 and ended in failure
C1_Witness ==
    \E p \in Runs : /\ Spawning(p) /\ pc[p] = "exit" /\ ret[p] = FALSE
                    /\ Has(hist[p], "probe") /\ creates[p] = 1

\* C2: once a bootstrap command has exited non-zero no further command is issued, and the
\* spawn ends with False and without the success notification.
C2_BootstrapFailFast ==
    \A p \in Runs : Spawning(p) =>
        /\ ~bafter[p]
        /\ (pc[p] = "exit" /\ bfailed[p] =>
              ret[p] = FALSE /\ ~Has(hist[p], "notify_alive"))

\* C3: the process of a spawn exits with 0 exactly when spawn_node returned True.
C3_ExitCodeTellsSuccess ==
    \A p \in Runs : Spawning(p) /\ pc[p] = "exit" =>
        (ExitStatus(args[p].op, ret[p], scr[p].code) = 0 <=> ret[p] = TRUE)

\* C4 as stated: create_dns is not called before a probe of port 22 has been made
\* (and, with it, before wait_for_ssh has returned True).
C4_DnsAfterReachable ==
    \A p \in Runs : Spawning(p) /\ Has(hist[p], "create_dns") =>
        Before(hist[p], "probe", "create_dns")

\* C4: create_dns is called with the address get_vm_ip returned, after the list that
\* showed it and before the first probe of port 22; no probe is made without it.
C4_DnsAfterAddressBeforeProbe ==
    \A p \in Runs : Spawning(p) =>
        /\ Has(hist[p], "create_dns") =>
              /\ ip[p] # None
              /\ hist[p][FirstOf(hist[p], "create_dns")].a = ip[p]
              /\ Before(hist[p], "list", "create_dns")
              /\ pc[p] \notin {"sp_create", "sp_created", "sp_poll", "sp_polled", "sp_dns"}
        /\ Has(hist[p], "probe") => Before(hist[p], "create_dns", "probe")

\* a spawn that has upserted the record and then probed port 22
C4_Witness ==
    \E p \in Runs : Spawning(p) /\ Before(hist[p], "create_dns", "probe")

C6_DestroyAbsentIsNoOp ==
    \A p \in Runs :
        (/\ args[p].op = "script" /\ Returned(p)
         /\ \/ scr[p].status = "404"
            \/ scr[p].status = "ok" /\ scr[p].sid = 0)
        => scr[p].code = 0

\* C7: the address loop makes at most 12 list queries; while no address was obtained no
\* record is upserted, no probe or remote command is issued, and the spawn then ends
\* with False after exactly one create.
C7_AddressLoopBounded ==
    \A p \in Runs : Spawning(p) =>
        /\ polls[p] <= POLL_ATTEMPTS
        /\ ip[p] = None =>
              /\ ~Has(hist[p], "create_dns") /\ ~Has(hist[p], "probe")
              /\ ~Has(hist[p], "ssh_run") /\ ~Has(hist[p], "notify_alive")
        /\ (pc[p] = "exit" /\ ip[p] = None /\ Has(hist[p], "list")) =>
              ret[p] = FALSE /\ creates[p] = 1 /\ polls[p] = POLL_ATTEMPTS

\* a spawn ended after 12 list queries, none of which gave an address
C7_Witness ==
    \E p \in Runs : /\ Spawning(p) /\ pc[p] = "exit" /\ ip[p] = None
                    /\ polls[p] = POLL_ATTEMPTS /\ ret[p] = FALSE

\* C8: a spawn whose create succeeded, whose list showed the address of the server it
\* made, that found port 22 open and whose remote commands all exited 0 returns True,
\* with that server's address.
C8_SmoothSpawnIsReady ==
    \A p \in Runs : (Spawning(p) /\ pc[p] = "exit" /\ ghost[p].smooth) =>
        ret[p] = TRUE /\ ip[p] = IpOf(ghost[p].made)

\* C9: two runs for the same node name are never in progress at the same time.
C9_OneRunPerName ==
    \A p, q \in Runs : (p # q /\ InProgress(p) /\ InProgress(q)) =>
        args[p].name # args[q].name

\* C10: the server a destroy_node is powering off or deleting belongs to the node it was
\* called for, and the address a spawn_node has read is not that of another node's server.
C10_NamesIndependent ==
    \A p \in Runs :
        /\ (Destroying(p) /\ scr[p].pc \in {"poweroff", "delete"}) =>
              \A k \in 1..Len(servers[args[p].prov]) :
                  servers[args[p].prov][k].id = scr[p].sid =>
                      servers[args[p].prov][k].node = args[p].name
        /\ (Spawning(p) /\ ip[p] # None) =>
              \A k \in 1..Len(servers[args[p].prov]) :
                  servers[args[p].prov][k].ip = ip[p] =>
                      servers[args[p].prov][k].node = args[p].name

IsNotification(k) == k \in {"notify_alive", "notify_down", "notify_destroyed"}
Kinds(h) == [i \in 1..Len(h) |-> h[i].k]

\* C11: a spawn that returned True sent a notification before the provider's create and the
\* success notification after the bootstrap; a destroy sent one notification before the
\* provider's destroy and the final one after the DNS delete.
C11_LifecycleNotifications ==
    \A p \in Runs :
        /\ (Spawning(p) /\ pc[p] = "exit" /\ ret[p] = TRUE) =>
              /\ \E i \in 1..Len(hist[p]) :
                    IsNotification(hist[p][i].k) /\ i < FirstOf(hist[p], "create")
              /\ Before(hist[p], "ssh_run", "notify_alive")
        /\ (Destroying(p) /\ pc[p] = "exit") =>
              /\ Before(hist[p], "notify_down", "destroy")
              /\ Before(hist[p], "delete_dns", "notify_destroyed")

\* C12: discord_notify always returns a boolean, and whatever its calls returned a destroy
\* makes the same calls in the same order and returns True, and a spawn that has reached
\* its success notification returns True.
C12_NotifyNeverMatters ==
    /\ \A w \in BOOLEAN, o \in {"204", "refused", "raised"} : discord_notify(w, o) \in BOOLEAN
    /\ \A p \in Runs :
          /\ (Destroying(p) /\ pc[p] = "exit") =>
                /\ ret[p] = TRUE
                /\ Kinds(hist[p]) =
                      <<"notify_down", "list", "destroy", "delete_dns", "notify_destroyed">>
          /\ (Spawning(p) /\ Has(hist[p], "notify_alive")) => pc[p] = "exit" /\ ret[p] = TRUE

\* a destroy at its end, one of whose notifications was not delivered
C12_Witness ==
    \E p \in Runs : Destroying(p) /\ pc[p] = "exit" /\ ghost[p].lost /\ env.webhook

C14_OneRecordPerName ==
    \A n \in Names \cup {VM_NAME} : Len(RecordsOf(zone, n)) <= 1

\* C15: a destroy_node whose provider destroy exited non-zero does not report what a
\* destroy that deleted the server reports (True), nor a total failure (False).
C15_PartialFailureReported ==
    \A p \in Runs : (Destroying(p) /\ pc[p] = "exit" /\ scr[p].code # 0) =>
        ret[p] \notin {TRUE, FALSE}

\* C16: without CLOUDFLARE_API_TOKEN the run's create_dns or delete_dns call returns False,
\* sends no request to Cloudflare, and the run goes on.
C16_NoTokenNoRequest ==
    \A p \in Runs : (~env.token /\ dns[p].called) =>
        /\ ~dns[p].ok
        /\ dns[p].reqs = 0
        /\ pc[p] \in {"sp_ssh", "sp_boot", "sp_notify", "de_final", "exit"}


ScalewayDestroy(p) ==
    /\ args[p].prov = "scaleway"
    /\ args[p].op = "script" \/ (Destroying(p) /\ Has(hist[p], "destroy"))

\* C18: a Scaleway destroy that asked for the power-off also sends the server DELETE,
\* after it, whatever the power-off and the state queries answered; the poll makes at
\* most 30 state queries.
C18_DeleteAlwaysIssued ==
    \A p \in Runs : ScalewayDestroy(p) =>
        /\ scr[p].i <= POWEROFF_POLLS
        /\ (Returned(p) /\ Has(scr[p].calls, "poweroff")) =>
              Before(scr[p].calls, "poweroff", "delete")

\* C19: a Scaleway destroy whose server DELETE was sent attempts the deletion of the
\* volumes it collected, even when the DELETE was refused; and a destroy_node at its end
\* has called delete_dns and sent the final notification.
C19_CleanupGoesOn ==
    \A p \in Runs :
        /\ (ScalewayDestroy(p) /\ Returned(p) /\ Has(scr[p].calls, "delete")
              /\ scr[p].vols # <<>>) => Has(scr[p].calls, "delvol")
        /\ (Destroying(p) /\ pc[p] = "exit") =>
              Before(hist[p], "delete_dns", "notify_destroyed")


\* C20: the volumes a Scaleway destroy cleans up are exactly the sbs volumes of the server
\* as read before its deletion; a volume delete is only sent after the server DELETE, each
\* collected volume gets one attempt whatever the earlier attempts answered, and the
\* command then exits with 0.
C20_VolumeCleanup ==
    \A p \in Runs : ScalewayDestroy(p) =>
        LET svs == servers["scaleway"]
            k == IndexOfId(svs, scr[p].sid)
            got == scr[p].vols
        IN  /\ (scr[p].pc \in {"poweroff", "pollstate", "delete"} /\ k # 0) =>
                  /\ \A j \in 1..Len(got) : \E v \in 1..Len(svs[k].vols) :
                        svs[k].vols[v].id = got[j] /\ svs[k].vols[v].type = "sbs_volume"
                  /\ \A v \in 1..Len(svs[k].vols) :
                        svs[k].vols[v].type = "sbs_volume" =>
                            Cardinality({j \in 1..Len(got) : got[j] = svs[k].vols[v].id}) = 1
            /\ Has(scr[p].calls, "delvol") => Before(scr[p].calls, "delete", "delvol")
            /\ scr[p].pc = "delvols" => Has(scr[p].calls, "delete") /\ scr[p].i < Len(got)
            /\ (Returned(p) /\ Has(scr[p].calls, "delvol")) =>
                  scr[p].code = 0 /\ scr[p].i = Len(got)

\* a Scaleway destroy that ended with 0 after two volume deletes, the first of them refused
C20_Witness ==
    \E p \in Runs : /\ ScalewayDestroy(p) /\ Returned(p) /\ scr[p].code = 0
                    /\ Len(scr[p].vols) = 2 /\ scr[p].i = 2
                    /\ scr[p].vols[1] \in blockVols

\* C21: when the provider's create command has ended with a non-zero exit status, the
\* account holds no server that the command made, whichever of its requests failed.
C21_FailedCreateLeavesNothing ==
    \A p \in Runs :
        (Spawning(p) /\ pc[p] = "sp_created" /\ Returned(p) /\ scr[p].code # 0) =>
            IndexOfId(servers[args[p].prov], ghost[p].made) = 0

\* C22: a second call of bootstrap_node for the same machine with the same arguments
\* leaves the machine as the first call left it, and each of the two scheduled tasks is in
\* its crontab once.
C22_BootstrapIdempotent ==
    \A p \in Runs : (pc[p] = "booted" /\ booted.runs >= 1) =>
        /\ host = booted.once
        /\ Entries(host.cronGiobi, DAILY_TASK) = 1
        /\ Entries(host.cronRoot, LIVENESS_TASK) = 1

\* the external actions of destroy_node, in the order the spec gives them
DestroySteps == <<"notify_down", "list", "destroy", "delete_dns", "notify_destroyed">>

RowsNamed(stdout, name) ==
    {i \in 1..Len(stdout) : Split(stdout[i]) # <<>> /\ Split(stdout[i])[1] = name}

\* C24: what get_vm_ip returns for the output of the provider's list is the address of the
\* listed server whose name is exactly the name asked for, and None when no server has that
\* name or when that server has no address yet.
C24_ExactNameAddress ==
    \A p \in Runs : (pc[p] \in {"sp_polled", "de_gotip"} /\ Returned(p)) =>
        LET out == scr[p].out
            rows == RowsNamed(out, args[p].name)
            first == CHOOSE i \in rows : \A j \in rows : i <= j
        IN  get_vm_ip(out, args[p].name) =
                IF rows = {} THEN None ELSE FirstAddress(Split(out[first]))

====
